---- MODULE Spec2Model ----
(***************************************************************************)
(* RentHub backend: bearer-token authentication, listing ownership guard   *)
(* and the seller rating aggregate.                                        *)
(*                                                                         *)
(* The repository holds overlapping server variants.  "enhanced" is the    *)
(* server with profiles and reviews (src/unnamed/part_000), "server" is    *)
(* src/server.js.  A deployment runs one of them; the variant is fixed at  *)
(* start-up.                                                               *)
(*                                                                         *)
(* A request handler is an async function: it runs without interruption    *)
(* between two awaits and every awaited storage operation is atomic at the *)
(* store.  An action is one such segment: the storage operation that the   *)
(* handler was waiting for, followed by the handler's code up to the next  *)
(* await (or to the response).  The arrival of a request, the middleware   *)
(* (synchronous in both variants) and the first storage operation of the   *)
(* handler form the first segment.                                         *)
(***************************************************************************)
EXTENDS Integers, Sequences, FiniteSets, Bags, TLC

\* ---------------------------------------------------------------- bounds
MaxUsers    == 2      \* identities that can be registered
MaxItems    == 1      \* listings that can be created
MaxReviews  == 3      \* reviews that can be persisted
MaxTime     == 3      \* last clock tick
NumClients  == 2      \* browsers (AuthManager instances)
NumSlots    == 2      \* requests that can be in flight together

\* JWT_EXPIRE ('7d'), counted in clock ticks
TokenTTL == 2

Clients == 1..NumClients
Slots   == 1..NumSlots

\* ---------------------------------------------------------------- values
Null     == "null"
NoRating == -1

Emails    == {"a@x.com", "A@x.com", "b@x.com"}
Passwords == {"secret1", "wrong"}
ItemNames == {"bike", "drill"}
RatingInputs == {NoRating, 0, 4, 5, 6}

NoToken == [kind |-> "none", sub |-> 0, email |-> Null, exp |-> 0, sig |-> "none"]
Garbage == [kind |-> "garbage", sub |-> 0, email |-> Null, exp |-> 0, sig |-> "none"]

NoHeader == << >>

NoBody == [email |-> Null, password |-> Null, confirmPassword |-> Null,
           name |-> Null, rating |-> NoRating, userId |-> 0]

\* no user document in the handler's memory
NoDoc == [name |-> Null, email |-> Null, password |-> Null,
          averageRating |-> 0, totalReviews |-> 0, totalItemsListed |-> 0]

\* a request: what it carries (hdr, id, body), whether it arrived before the expiry
\* of the token it carries (unexpired), whether its handler was entered (ran), and
\* the handler's locals (req.user, the item's owner as read, the aggregate as
\* computed); overlap records that another review submission for the same seller
\* was in flight during this one; doc is the user document that PUT
\* /api/profile holds between its findById and its save
Idle == [route |-> "none", pc |-> "idle", hdr |-> NoHeader, unexpired |-> FALSE,
         ran |-> FALSE, user |-> 0, id |-> 0,
         body |-> NoBody, owner |-> 0, cnt |-> 0, avg |-> 0,
         overlap |-> FALSE, doc |-> NoDoc]

\* a response body without a message field
NoJson == [success |-> FALSE, message |-> Null]

NoResp == [status |-> 0, token |-> NoToken, json |-> NoJson, req |-> Idle]

VARIABLES
    env,       \* process.env as loaded by dotenv at start-up
    variant,   \* which server file is running
    now,       \* the server clock
    users,     \* User collection: sequence, _id = index
    items,     \* Item collection: sequence, _id = index; deleted documents are tombstones
    reviews,   \* Review collection: bag of documents
    client,    \* AuthManager state of every browser
    slots,     \* requests in flight
    resp,      \* the response sent last, with the request it answers
    accounts   \* the credentials of the sign-ups answered 201, by _id

vars == <<env, variant, now, users, items, reviews, client, slots, resp, accounts>>
db   == <<users, items, reviews>>

\* ------------------------------------------------------ identifiers
\* An _id is an ObjectId in a document and a string in a token payload and
\* in req.user; === on an ObjectId and a string is false.
OID(n) == [t |-> "oid", v |-> n]
Str(n) == [t |-> "str", v |-> n]
toString(x) == [t |-> "str", v |-> x.v]
StrictEq(a, b) == a.t = "str" /\ b.t = "str" /\ a.v = b.v

\* ------------------------------------------------------ secret hasher
Hash(pw) == "$2a$10$" \o pw
Compare(pw, digest) == digest = Hash(pw)

\* ------------------------------------------------------ tokens
\* the key given to jwt.sign and jwt.verify: process.env.JWT_SECRET, in part_000
\* with the literal fallback; Null is undefined
SecretOrKey ==
    IF variant = "enhanced" /\ env.JWT_SECRET = Null THEN "your_jwt_secret_key"
    ELSE env.JWT_SECRET

\* jwt.sign throws 'secretOrPrivateKey must have a value' without a key
SignThrows == SecretOrKey = Null

Sign(uid, email, t) ==
    [kind |-> "jwt", sub |-> uid, email |-> email, exp |-> t + TokenTTL, sig |-> SecretOrKey]

\* a verification that ignores the expiry
JwtVerify_NoExpiry(tok, t) ==
    IF tok.kind # "jwt" THEN "Malformed"
    ELSE IF SecretOrKey = Null THEN "NoKey"
    ELSE IF tok.sig # SecretOrKey THEN "BadSignature"
    ELSE "ok"

\* jwt.verify: structure, then the key and the signature, then expiry against the clock
JwtVerify(tok, t) ==
    IF tok.kind # "jwt" THEN "Malformed"
    ELSE IF SecretOrKey = Null THEN "NoKey"
    ELSE IF tok.sig # SecretOrKey THEN "BadSignature"
    ELSE IF t >= tok.exp THEN "Expired"
    ELSE "ok"

\* authHeader && authHeader.split(' ')[1]: a header is the sequence of its words
ExtractToken(h) == IF Len(h) >= 2 THEN h[2] ELSE NoToken

\* a middleware without the check for a missing token
authenticateToken_NoGuard(h, t) ==
    LET token == ExtractToken(h) IN
    IF JwtVerify(token, t) # "ok" THEN [next |-> FALSE, status |-> 403, userId |-> 0]
    ELSE [next |-> TRUE, status |-> 0, userId |-> token.sub]

authenticateToken(h, t) ==
    LET token == ExtractToken(h) IN
    IF token.kind = "none" THEN [next |-> FALSE, status |-> 401, userId |-> 0]
    ELSE IF JwtVerify(token, t) # "ok" THEN [next |-> FALSE, status |-> 403, userId |-> 0]
    ELSE [next |-> TRUE, status |-> 0, userId |-> token.sub]

verifyToken(h, t) ==
    LET token == ExtractToken(h) IN
    IF token.kind = "none" THEN [next |-> FALSE, status |-> 401, userId |-> 0]
    ELSE IF JwtVerify(token, t) # "ok" THEN [next |-> FALSE, status |-> 401, userId |-> 0]
    ELSE [next |-> TRUE, status |-> 0, userId |-> token.sub]

\* the middleware of the running variant, at time t
Middleware(h, t) ==
    IF variant = "enhanced" THEN authenticateToken(h, t) ELSE verifyToken(h, t)

Authenticate(h) == Middleware(h, now)

\* ------------------------------------------------------ credential store
\* lowercase: true, trim: true
Normalize(e) == IF e = "A@x.com" THEN "a@x.com" ELSE e

\* the schema's setters on the email path
EmailSetter(e) == IF variant = "server" THEN Normalize(e) ELSE e

UserIds == 1..Len(users)

\* User.findOne({ email }): the _id of the document found, 0 for null
FindOneByEmail(e) ==
    LET hit == {i \in UserIds : users[i].email = EmailSetter(e)} IN
    IF hit = {} THEN 0 ELSE CHOOSE i \in hit : \A j \in hit : i <= j

\* a user stored with the plaintext password
NewUser_Plain(n, e, pw) ==
    [name |-> n, email |-> EmailSetter(e), password |-> pw,
     averageRating |-> 0, totalReviews |-> 0, totalItemsListed |-> 0]

\* new User({ name, email, password: hashedPassword, phone })
NewUser(n, e, pw) ==
    [name |-> n, email |-> EmailSetter(e), password |-> Hash(pw),
     averageRating |-> 0, totalReviews |-> 0, totalItemsListed |-> 0]

\* ------------------------------------------------------ requests
FreeSlot(s) == slots[s].pc = "idle"

NewReq(route, h, id, body) ==
    [Idle EXCEPT !.route = route, !.pc = "start", !.hdr = h, !.id = id, !.body = body,
                 !.unexpired = (Len(h) >= 2 /\ h[2].kind = "jwt" /\ now < h[2].exp)]

\* server.js validates the sign-up body before the existence check: the message
\* of the first check that fails, Null when the body passes
SignupValidation(b) ==
    IF variant # "server" THEN Null
    ELSE IF b.name = Null \/ b.email = Null \/ b.password = Null \/ b.confirmPassword = Null
    THEN "Please provide all required fields"
    ELSE IF b.password # b.confirmPassword THEN "Passwords do not match"
    ELSE IF Len(b.password) < 6 THEN "Password must be at least 6 characters"
    ELSE Null

SignupInvalid(b) == SignupValidation(b) # Null

\* the message of the middleware's refusal
MiddlewareMessage(h) ==
    IF variant = "enhanced"
    THEN IF ExtractToken(h).kind = "none" THEN "Access token required"
         ELSE "Invalid or expired token"
    ELSE IF ExtractToken(h).kind = "none" THEN "No token provided. Please login."
         ELSE "Invalid or expired token. Please login again."

\* the message field of the body that route r.route sends with the status; Null
\* when the body has no message field.  Where the variants differ in wording
\* only, the wording of part_000 stands for both.
Message(r, status) ==
    IF r.route = "signup" THEN
        IF status = 201 THEN "User registered successfully"
        ELSE IF status = 500 THEN "Server error during signup"
        ELSE IF SignupInvalid(r.body) THEN SignupValidation(r.body)
        ELSE "Email already registered"
    ELSE IF r.route = "login" THEN
        IF status = 200 THEN "Login successful"
        ELSE IF status = 500 THEN "Server error during login"
        ELSE IF variant = "server" /\ (r.body.email = Null \/ r.body.password = Null)
        THEN "Please provide email and password"
        ELSE "Invalid email or password"
    ELSE IF r.route = "logout" THEN
        IF status = 200 THEN "Logged out successfully!" ELSE "Route not found"
    ELSE IF ~r.ran /\ variant # "basic" THEN MiddlewareMessage(r.hdr)
    ELSE IF r.route = "me" THEN
        IF status = 200 THEN Null
        ELSE IF status = 404 THEN "User not found"
        ELSE "Error fetching profile"
    ELSE IF r.route = "putProfile" THEN
        IF status = 200 THEN "Profile updated successfully"
        ELSE IF status = 404 THEN "User not found"
        ELSE "Error updating profile"
    ELSE IF r.route = "createItem" THEN
        IF status = 201 THEN "Item created successfully"
        ELSE IF status = 400 THEN "Please provide all required fields"
        ELSE "Error creating item"
    ELSE IF r.route = "putItem" THEN
        IF status = 200 THEN "Item updated successfully"
        ELSE IF status = 404 THEN "Item not found"
        ELSE IF status = 403
        THEN IF variant = "enhanced" THEN "Unauthorized"
             ELSE "You can only update your own items"
        ELSE "Error updating item"
    ELSE IF r.route = "deleteItem" THEN
        IF status = 200 THEN "Item deleted successfully"
        ELSE IF status = 404 THEN "Item not found"
        ELSE IF status = 403
        THEN IF variant = "enhanced" THEN "Unauthorized"
             ELSE "You can only delete your own items"
        ELSE "Error deleting item"
    ELSE \* r.route = "review"
        IF status = 201 THEN "Review submitted successfully"
        ELSE IF status = 404 THEN "Item not found"
        ELSE IF status = 400 THEN "Cannot review your own item"
        ELSE "Error creating review"

\* the body of the response: { success, message, ... }
Json(r, status) == [success |-> status < 400, message |-> Message(r, status)]

\* res.status(status).json(...): the request leaves its slot
Reply(s, r, status, tok) ==
    /\ slots' = [slots EXCEPT ![s] = Idle]
    /\ resp' = [status |-> status, token |-> tok, json |-> Json(r, status), req |-> r]

\* the handler reaches an await
Await(s, r, pc) ==
    /\ slots' = [slots EXCEPT ![s] = [r EXCEPT !.pc = pc]]
    /\ UNCHANGED resp

\* AuthManager.setAuth on a response that carries a token
setAuth(c, tok) == client' = [client EXCEPT ![c] = [token |-> tok]]

\* AuthManager.getAuthHeader: `Bearer ${this.token}`, "Bearer null" without a token
getAuthHeader(c) ==
    <<"Bearer", IF client[c].token.kind = "none" THEN Garbage ELSE client[c].token>>

\* a token with the claims of user u that the server did not sign
Forged(u) == [kind |-> "jwt", sub |-> u, email |-> users[u].email,
              exp |-> MaxTime + TokenTTL + 1, sig |-> "bad"]

\* the Authorization headers a request from browser c can carry
Headers(c) ==
    {getAuthHeader(c), NoHeader, <<"Bearer">>, <<"Bearer", Garbage>>}
    \cup (IF client[c].token.kind = "none" THEN {} ELSE {<<"Basic", client[c].token>>})
    \cup {<<"Bearer", Forged(u)>> : u \in UserIds}

\* ------------------------------------------------------ POST /api/auth/signup
SignupBody(e, p, cp) ==
    [NoBody EXCEPT !.email = e, !.password = p, !.confirmPassword = cp, !.name = "Ann"]

StartSignup(s, b) ==
    /\ FreeSlot(s)
    /\ LET r == [NewReq("signup", NoHeader, 0, b) EXCEPT !.ran = TRUE] IN
         IF SignupInvalid(b) THEN Reply(s, r, 400, NoToken)
         ELSE IF FindOneByEmail(b.email) # 0 THEN Reply(s, r, 400, NoToken)
         ELSE Await(s, r, "userSave")
    /\ UNCHANGED <<env, variant, accounts, now, users, items, reviews, client>>

\* bcrypt.hash, newUser.save() against the unique index on email, jwt.sign (a
\* throw of jwt.sign is caught after the save); the browser c that sent the
\* request stores the token
SignupSave(s, c) ==
    LET r == slots[s]
        u == NewUser(r.body.name, r.body.email, r.body.password)
    IN
    /\ r.pc = "userSave"
    /\ IF \E i \in UserIds : users[i].email = u.email
       THEN /\ Reply(s, r, 500, NoToken)
            /\ UNCHANGED <<users, client, accounts>>
       ELSE LET tok == Sign(Len(users) + 1, u.email, now) IN
            /\ Len(users) < MaxUsers
            /\ users' = Append(users, u)
            /\ IF SignThrows
               THEN /\ Reply(s, r, 500, NoToken)
                    /\ UNCHANGED <<client, accounts>>
               ELSE /\ accounts' = Append(accounts, [email |-> r.body.email,
                                                     password |-> r.body.password])
                    /\ Reply(s, r, 201, tok)
                    /\ setAuth(c, tok)
    /\ UNCHANGED <<env, variant, now, items, reviews>>

\* ------------------------------------------------------ POST /api/auth/login
LoginBody(e, p) == [NoBody EXCEPT !.email = e, !.password = p]

Login(s, c, b) ==
    /\ FreeSlot(s)
    /\ LET r == [NewReq("login", NoHeader, 0, b) EXCEPT !.ran = TRUE]
           u == FindOneByEmail(b.email)
           bad == IF variant = "server" THEN 401 ELSE 400
       IN
         IF variant = "server" /\ (b.email = Null \/ b.password = Null)
         THEN Reply(s, r, 400, NoToken) /\ UNCHANGED client
         ELSE IF u = 0 THEN Reply(s, r, bad, NoToken) /\ UNCHANGED client
         ELSE IF ~Compare(b.password, users[u].password)
         THEN Reply(s, r, bad, NoToken) /\ UNCHANGED client
         ELSE IF SignThrows THEN Reply(s, r, 500, NoToken) /\ UNCHANGED client
         ELSE LET tok == Sign(u, users[u].email, now) IN
              Reply(s, r, 200, tok) /\ setAuth(c, tok)
    /\ UNCHANGED <<env, variant, accounts, now, users, items, reviews>>

\* ------------------------------------------------------ GET /api/profile/me, GET /api/auth/me
Me(s, h) ==
    /\ FreeSlot(s)
    /\ LET a  == Authenticate(h)
           r0 == NewReq("me", h, 0, NoBody)
           r  == [r0 EXCEPT !.ran = TRUE, !.user = a.userId]
       IN
         IF ~a.next THEN Reply(s, r0, a.status, NoToken)
         ELSE IF variant = "enhanced" /\ a.userId \notin UserIds THEN Reply(s, r, 404, NoToken)
         ELSE Reply(s, r, 200, NoToken)
    /\ UNCHANGED <<env, variant, accounts, now, users, items, reviews, client>>

\* ------------------------------------------------------ PUT /api/profile
\* the body may carry any field; the handler reads name, phone, bio, profilePic
ProfileBody(n) == [NoBody EXCEPT !.name = n, !.email = "b@x.com", !.password = "wrong"]

\* up to user.save(): User.findById and the assignments to the document in memory
PutProfile(s, h, b) ==
    /\ FreeSlot(s)
    /\ variant = "enhanced"
    /\ LET a  == Authenticate(h)
           r0 == NewReq("putProfile", h, 0, b)
           r  == [r0 EXCEPT !.ran = TRUE, !.user = a.userId]
       IN
         IF ~a.next THEN Reply(s, r0, a.status, NoToken)
         ELSE IF a.userId \notin UserIds THEN Reply(s, r, 404, NoToken)
         ELSE Await(s, [r EXCEPT !.doc = [users[a.userId] EXCEPT !.name =
                                            IF b.name # Null THEN b.name ELSE @]],
                    "profileSave")
    /\ UNCHANGED <<env, variant, accounts, now, users, items, reviews, client>>

\* a save that writes the whole document held in memory
ProfileSave_WholeDoc(s) ==
    LET r == slots[s] IN
    /\ r.pc = "profileSave"
    /\ users' = [users EXCEPT ![r.user] = r.doc]
    /\ Reply(s, r, 200, NoToken)
    /\ UNCHANGED <<env, variant, accounts, now, items, reviews, client>>

\* user.save() on a document that was read: mongoose sends $set for the
\* modified paths only
ProfileSave(s) ==
    LET r == slots[s] IN
    /\ r.pc = "profileSave"
    /\ users' = [users EXCEPT ![r.user].name =
                                IF r.body.name # Null THEN r.doc.name ELSE @]
    /\ Reply(s, r, 200, NoToken)
    /\ UNCHANGED <<env, variant, accounts, now, items, reviews, client>>

\* ------------------------------------------------------ POST /api/auth/logout
\* a logout that replaces the signing key
Logout_Rotate(s, h) ==
    /\ FreeSlot(s)
    /\ LET r == [NewReq("logout", h, 0, NoBody) EXCEPT !.ran = TRUE] IN
         Reply(s, r, IF variant = "server" THEN 200 ELSE 404, NoToken)
    /\ env' = [env EXCEPT !.JWT_SECRET = "rotated"]
    /\ UNCHANGED <<variant, accounts, now, users, items, reviews, client>>

\* server.js answers 200 and touches nothing; part_000 has no such route and
\* its catch-all answers 404 'Route not found'
Logout(s, h) ==
    /\ FreeSlot(s)
    /\ LET r == [NewReq("logout", h, 0, NoBody) EXCEPT !.ran = TRUE] IN
         Reply(s, r, IF variant = "server" THEN 200 ELSE 404, NoToken)
    /\ UNCHANGED <<env, variant, accounts, now, users, items, reviews, client>>

\* AuthManager.clearAuth: the browser discards its token
clearAuth(c) == client' = [client EXCEPT ![c] = [token |-> NoToken]]

\* AuthManager.logout: clearAuth and a redirect, without a request to the server
ClientLogout(c) ==
    /\ client[c].token # NoToken
    /\ clearAuth(c)
    /\ UNCHANGED <<env, variant, accounts, now, users, items, reviews, slots, resp>>

\* ------------------------------------------------------ listings
ItemIds == 1..Len(items)

Tombstone == [live |-> FALSE, userId |-> 0, name |-> Null]

\* Item.findById(id): the document, or null
ItemFound(id) == id \in ItemIds /\ items[id].live

ItemBody(n, u) == [NoBody EXCEPT !.name = n, !.userId = u]

\* POST /api/items: newItem.save(); then the $inc of the owner's count (enhanced)
\* or the populate and the response (server)
CreateItem(s, h, b) ==
    /\ FreeSlot(s)
    /\ LET a  == Authenticate(h)
           r0 == NewReq("createItem", h, 0, b)
           r  == [r0 EXCEPT !.ran = TRUE, !.user = a.userId]
       IN
         IF ~a.next THEN Reply(s, r0, a.status, NoToken) /\ UNCHANGED items
         ELSE IF variant = "server" /\ b.name = Null
         THEN Reply(s, r, 400, NoToken) /\ UNCHANGED items
         ELSE /\ Len(items) < MaxItems
              /\ items' = Append(items, [live |-> TRUE, userId |-> a.userId, name |-> b.name])
              /\ IF variant = "enhanced"
                 THEN Await(s, [r EXCEPT !.id = Len(items) + 1], "incr")
                 ELSE Reply(s, [r EXCEPT !.id = Len(items) + 1], 201, NoToken)
    /\ UNCHANGED <<env, variant, accounts, now, users, reviews, client>>

\* User.findByIdAndUpdate(req.user.userId, { $inc: { totalItemsListed: 1 } })
CreateIncr(s) ==
    LET r == slots[s] IN
    /\ r.pc = "incr"
    /\ users' = [users EXCEPT ![r.user].totalItemsListed = @ + 1]
    /\ Reply(s, r, 201, NoToken)
    /\ UNCHANGED <<env, variant, accounts, now, items, reviews, client>>

\* a guard that compares the ObjectId with the string
NotOwner_NoToString(id, uid) == ~StrictEq(OID(items[id].userId), Str(uid))

\* the ownership guard of PUT and DELETE /api/items/:id:
\* item.userId.toString() !== req.user.userId[.toString()]
NotOwner(id, uid) == ~StrictEq(toString(OID(items[id].userId)), Str(uid))

\* PUT /api/items/:id up to the write
PutItem(s, h, id, b) ==
    /\ FreeSlot(s)
    /\ LET a  == Authenticate(h)
           r0 == NewReq("putItem", h, id, b)
           r  == [r0 EXCEPT !.ran = TRUE, !.user = a.userId]
       IN
         IF ~a.next THEN Reply(s, r0, a.status, NoToken)
         ELSE IF ~ItemFound(id) THEN Reply(s, r, 404, NoToken)
         ELSE IF NotOwner(id, a.userId)
         THEN Reply(s, [r EXCEPT !.owner = items[id].userId], 403, NoToken)
         ELSE Await(s, [r EXCEPT !.owner = items[id].userId],
                    IF variant = "enhanced" THEN "itemSave" ELSE "itemUpdate")
    /\ UNCHANGED <<env, variant, accounts, now, users, items, reviews, client>>

\* part_000: item.save() writes the assigned fields.  When the document was
\* deleted in between, save() throws DocumentNotFoundError or, in older
\* mongoose releases, resolves without writing.
PutSave(s) ==
    LET r == slots[s] IN
    /\ r.pc = "itemSave"
    /\ IF ItemFound(r.id)
       THEN /\ items' = [items EXCEPT ![r.id].name =
                            IF r.body.name # Null THEN r.body.name ELSE @]
            /\ Reply(s, r, 200, NoToken)
       ELSE /\ UNCHANGED items
            /\ \E st \in {500, 200} : Reply(s, r, st, NoToken)
    /\ UNCHANGED <<env, variant, accounts, now, users, reviews, client>>

\* server.js: Item.findByIdAndUpdate(req.params.id, req.body, ...) sets every
\* field of the body that the schema knows
PutUpdate(s) ==
    LET r == slots[s] IN
    /\ r.pc = "itemUpdate"
    /\ IF ItemFound(r.id)
       THEN items' = [items EXCEPT
                        ![r.id].name = IF r.body.name # Null THEN r.body.name ELSE @,
                        ![r.id].userId = IF r.body.userId # 0 THEN r.body.userId ELSE @]
       ELSE UNCHANGED items
    /\ Reply(s, r, 200, NoToken)
    /\ UNCHANGED <<env, variant, accounts, now, users, reviews, client>>

\* a DELETE that removes the listing before it looks at the owner
DeleteItem_DeleteFirst(s, h, id) ==
    /\ FreeSlot(s)
    /\ LET a  == Authenticate(h)
           r0 == NewReq("deleteItem", h, id, NoBody)
           r  == [r0 EXCEPT !.ran = TRUE, !.user = a.userId]
       IN
         IF ~a.next THEN Reply(s, r0, a.status, NoToken) /\ UNCHANGED items
         ELSE IF ~ItemFound(id) THEN Reply(s, r, 404, NoToken) /\ UNCHANGED items
         ELSE IF NotOwner(id, a.userId)
         THEN /\ items' = [items EXCEPT ![id] = Tombstone]
              /\ Reply(s, [r EXCEPT !.owner = items[id].userId], 403, NoToken)
         ELSE /\ Await(s, [r EXCEPT !.owner = items[id].userId], "itemDelete")
              /\ UNCHANGED items
    /\ UNCHANGED <<env, variant, accounts, now, users, reviews, client>>

\* DELETE /api/items/:id up to the delete
DeleteItem(s, h, id) ==
    /\ FreeSlot(s)
    /\ LET a  == Authenticate(h)
           r0 == NewReq("deleteItem", h, id, NoBody)
           r  == [r0 EXCEPT !.ran = TRUE, !.user = a.userId]
       IN
         IF ~a.next THEN Reply(s, r0, a.status, NoToken)
         ELSE IF ~ItemFound(id) THEN Reply(s, r, 404, NoToken)
         ELSE IF NotOwner(id, a.userId)
         THEN Reply(s, [r EXCEPT !.owner = items[id].userId], 403, NoToken)
         ELSE Await(s, [r EXCEPT !.owner = items[id].userId], "itemDelete")
    /\ UNCHANGED <<env, variant, accounts, now, users, items, reviews, client>>

\* Item.findByIdAndDelete(req.params.id)
DeleteDo(s) ==
    LET r == slots[s] IN
    /\ r.pc = "itemDelete"
    /\ items' = IF r.id \in ItemIds THEN [items EXCEPT ![r.id] = Tombstone] ELSE items
    /\ IF variant = "enhanced" THEN Await(s, r, "decr") ELSE Reply(s, r, 200, NoToken)
    /\ UNCHANGED <<env, variant, accounts, now, users, reviews, client>>

\* User.findByIdAndUpdate(req.user.userId, { $inc: { totalItemsListed: -1 } })
DeleteDecr(s) ==
    LET r == slots[s] IN
    /\ r.pc = "decr"
    /\ users' = [users EXCEPT ![r.user].totalItemsListed = @ - 1]
    /\ Reply(s, r, 200, NoToken)
    /\ UNCHANGED <<env, variant, accounts, now, items, reviews, client>>

\* ------------------------------------------------------ listings in part_001
\* part_001 has no users and no middleware: its routes read no header and a
\* listing has no userId

\* POST /api/items
CreateItemNoAuth(s, h, b) ==
    /\ FreeSlot(s)
    /\ variant = "basic"
    /\ LET r == [NewReq("createItem", h, 0, b) EXCEPT !.ran = TRUE] IN
         IF b.name = Null THEN Reply(s, r, 400, NoToken) /\ UNCHANGED items
         ELSE /\ Len(items) < MaxItems
              /\ items' = Append(items, [live |-> TRUE, userId |-> 0, name |-> b.name])
              /\ Reply(s, [r EXCEPT !.id = Len(items) + 1], 201, NoToken)
    /\ UNCHANGED <<env, variant, accounts, now, users, reviews, client>>

\* PUT /api/items/:id: Item.findByIdAndUpdate(req.params.id, req.body, ...)
PutItemNoAuth(s, h, id, b) ==
    /\ FreeSlot(s)
    /\ variant = "basic"
    /\ LET r == [NewReq("putItem", h, id, b) EXCEPT !.ran = TRUE] IN
         IF ~ItemFound(id) THEN Reply(s, r, 404, NoToken) /\ UNCHANGED items
         ELSE /\ items' = [items EXCEPT ![id].name =
                              IF b.name # Null THEN b.name ELSE @]
              /\ Reply(s, r, 200, NoToken)
    /\ UNCHANGED <<env, variant, accounts, now, users, reviews, client>>

\* DELETE /api/items/:id: Item.findByIdAndDelete(req.params.id)
DeleteItemNoAuth(s, h, id) ==
    /\ FreeSlot(s)
    /\ variant = "basic"
    /\ LET r == [NewReq("deleteItem", h, id, NoBody) EXCEPT !.ran = TRUE] IN
         IF ~ItemFound(id) THEN Reply(s, r, 404, NoToken) /\ UNCHANGED items
         ELSE /\ items' = [items EXCEPT ![id] = Tombstone]
              /\ Reply(s, r, 200, NoToken)
    /\ UNCHANGED <<env, variant, accounts, now, users, reviews, client>>

\* ------------------------------------------------------ reviews
RECURSIVE SumRatings(_)
\* allReviews.reduce((sum, rev) => sum + rev.rating, 0)
SumRatings(b) ==
    IF BagToSet(b) = {} THEN 0
    ELSE LET d == CHOOSE x \in BagToSet(b) : TRUE IN
         d.rating * CopiesIn(d, b)
           + SumRatings([x \in BagToSet(b) \ {d} |-> b[x]])

\* Review.find({ sellerId })
FindBySeller(sid) ==
    LET hit == {d \in BagToSet(reviews) : d.sellerId = sid} IN
    [d \in hit |-> reviews[d]]

\* a rounding that truncates instead
ToFixed1_Trunc(sum, n) == (10 * sum) \div n

\* (sum / n).toFixed(1), in tenths
ToFixed1(sum, n) == (20 * sum + n) \div (2 * n)

\* a guard that compares the ObjectId with the string
SelfReview_NoToString(id, uid) == StrictEq(OID(items[id].userId), Str(uid))

\* the self-review guard: item.userId.toString() === req.user.userId
SelfReview(id, uid) == StrictEq(toString(OID(items[id].userId)), Str(uid))

\* validators without the upper limit
RatingValid_NoMax(x) == x # NoRating /\ x >= 1

\* the schema's validators on rating: required, min: 1, max: 5
RatingValid(x) == x # NoRating /\ x >= 1 /\ x <= 5

ReviewBody(x) == [NoBody EXCEPT !.rating = x]

InFlightFor(sid) ==
    {t \in Slots : slots[t].route = "review" /\ slots[t].pc # "idle" /\ slots[t].owner = sid}

\* POST /api/items/:id/reviews up to newReview.save()
Review(s, h, id, b) ==
    /\ FreeSlot(s)
    /\ variant = "enhanced"
    /\ LET a  == Authenticate(h)
           r0 == NewReq("review", h, id, b)
           r  == [r0 EXCEPT !.ran = TRUE, !.user = a.userId]
       IN
         IF ~a.next THEN Reply(s, r0, a.status, NoToken)
         ELSE IF ~ItemFound(id) THEN Reply(s, r, 404, NoToken)
         ELSE IF SelfReview(id, a.userId)
         THEN Reply(s, [r EXCEPT !.owner = items[id].userId], 400, NoToken)
         ELSE LET sid == items[id].userId IN
              /\ slots' = [t \in Slots |->
                             IF t = s
                             THEN [r EXCEPT !.pc = "reviewSave", !.owner = sid,
                                            !.overlap = (InFlightFor(sid) # {})]
                             ELSE IF t \in InFlightFor(sid)
                             THEN [slots[t] EXCEPT !.overlap = TRUE]
                             ELSE slots[t]]
              /\ UNCHANGED resp
    /\ UNCHANGED <<env, variant, accounts, now, users, items, reviews, client>>

\* a save whose validation error does not end the request
ReviewSave_NoAbort(s) ==
    LET r == slots[s] IN
    /\ r.pc = "reviewSave"
    /\ IF ~RatingValid(r.body.rating)
       THEN Await(s, r, "reviewFind") /\ UNCHANGED reviews
       ELSE /\ BagCardinality(reviews) < MaxReviews
            /\ reviews' = reviews (+) SetToBag({[itemId |-> r.id, sellerId |-> r.owner,
                                                buyerId |-> r.user, rating |-> r.body.rating]})
            /\ Await(s, r, "reviewFind")
    /\ UNCHANGED <<env, variant, accounts, now, users, items, client>>

\* newReview.save(): validation, then the insert
ReviewSave(s) ==
    LET r == slots[s] IN
    /\ r.pc = "reviewSave"
    /\ IF ~RatingValid(r.body.rating)
       THEN Reply(s, r, 500, NoToken) /\ UNCHANGED reviews
       ELSE /\ BagCardinality(reviews) < MaxReviews
            /\ reviews' = reviews (+) SetToBag({[itemId |-> r.id, sellerId |-> r.owner,
                                                buyerId |-> r.user, rating |-> r.body.rating]})
            /\ Await(s, r, "reviewFind")
    /\ UNCHANGED <<env, variant, accounts, now, users, items, client>>

\* Review.find({ sellerId: item.userId }) and the reduce
ReviewFind(s) ==
    LET r   == slots[s]
        all == FindBySeller(r.owner)
    IN
    /\ r.pc = "reviewFind"
    /\ Await(s, [r EXCEPT !.cnt = BagCardinality(all),
                          !.avg = ToFixed1(SumRatings(all), BagCardinality(all))],
             "aggUpdate")
    /\ UNCHANGED <<env, variant, accounts, now, users, items, reviews, client>>

\* User.findByIdAndUpdate(item.userId, { averageRating, totalReviews })
ReviewUpdate(s) ==
    LET r == slots[s] IN
    /\ r.pc = "aggUpdate"
    /\ users' = [users EXCEPT ![r.owner].averageRating = r.avg,
                              ![r.owner].totalReviews = r.cnt]
    /\ Reply(s, r, 201, NoToken)
    /\ UNCHANGED <<env, variant, accounts, now, items, reviews, client>>

\* the storage call that the submission awaits (save, find or findByIdAndUpdate)
\* rejects or times out: the catch block answers 500
ReviewCatch(s) ==
    LET r == slots[s] IN
    /\ r.pc \in {"reviewSave", "reviewFind", "aggUpdate"}
    /\ Reply(s, r, 500, NoToken)
    /\ UNCHANGED <<env, variant, accounts, now, users, items, reviews, client>>

\* ------------------------------------------------------ the clock
Tick ==
    /\ now < MaxTime
    /\ now' = now + 1
    /\ UNCHANGED <<env, variant, accounts, users, items, reviews, client, slots, resp>>

\* ------------------------------------------------------ specification
Init ==
    /\ env = [JWT_SECRET |-> "s3cret"]
    /\ variant \in {"enhanced", "server"}
    /\ now = 0
    /\ users = << >>
    /\ items = << >>
    /\ reviews = EmptyBag
    /\ client = [c \in Clients |-> [token |-> NoToken]]
    /\ slots = [s \in Slots |-> Idle]
    /\ resp = NoResp
    /\ accounts = << >>

\* Sign-up, login and a protected read, with the clock
NextClock ==
    \/ \E s \in Slots : StartSignup(s, SignupBody("a@x.com", "secret1", "secret1"))
    \/ \E s \in Slots, c \in Clients : SignupSave(s, c)
    \/ \E s \in Slots, c \in Clients : Login(s, c, LoginBody("a@x.com", "secret1"))
    \/ \E s \in Slots, c \in Clients : \E h \in Headers(c) : Me(s, h)
    \/ Tick

SpecClock == Init /\ [][NextClock]_vars

\* Sign-up and login with every body
NextAuth ==
    \/ \E s \in Slots, e \in {"a@x.com", "A@x.com"}, p \in Passwords, cp \in Passwords \cup {Null} :
          StartSignup(s, SignupBody(e, p, cp))
    \/ \E s \in Slots, c \in Clients : SignupSave(s, c)
    \/ \E s \in Slots, c \in Clients, e \in {"a@x.com", "A@x.com"}, p \in Passwords :
          Login(s, c, LoginBody(e, p))
    \/ \E s \in Slots, c \in Clients : Me(s, getAuthHeader(c))

SpecAuth == Init /\ [][NextAuth]_vars

\* Listings: creation, update and deletion by two identities
NextItems ==
    \/ \E s \in Slots, e \in {"a@x.com", "b@x.com"} :
          StartSignup(s, SignupBody(e, "secret1", "secret1"))
    \/ \E s \in Slots, c \in Clients : SignupSave(s, c)
    \/ \E s \in Slots, c \in Clients : CreateItem(s, getAuthHeader(c), ItemBody("bike", 0))
    \/ \E s \in Slots : CreateIncr(s)
    \/ \E s \in Slots, c \in Clients, id \in 1..MaxItems, n \in {"drill", Null}, u \in 0..MaxUsers :
          PutItem(s, getAuthHeader(c), id, ItemBody(n, u))
    \/ \E s \in Slots : PutSave(s)
    \/ \E s \in Slots : PutUpdate(s)
    \/ \E s \in Slots, c \in Clients, id \in 1..MaxItems : DeleteItem(s, getAuthHeader(c), id)
    \/ \E s \in Slots : DeleteDo(s)
    \/ \E s \in Slots : DeleteDecr(s)

SpecItems == Init /\ [][NextItems]_vars

\* Reviews and the seller aggregate
InitEnhanced == Init /\ variant = "enhanced"

NextReview ==
    \/ \E s \in Slots, e \in {"a@x.com", "b@x.com"} :
          StartSignup(s, SignupBody(e, "secret1", "secret1"))
    \/ \E s \in Slots, c \in Clients : SignupSave(s, c)
    \/ \E s \in Slots, c \in Clients : CreateItem(s, getAuthHeader(c), ItemBody("bike", 0))
    \/ \E s \in Slots : CreateIncr(s)
    \/ \E s \in Slots, c \in Clients, id \in 1..MaxItems, x \in RatingInputs :
          Review(s, getAuthHeader(c), id, ReviewBody(x))
    \/ \E s \in Slots : ReviewSave(s)
    \/ \E s \in Slots : ReviewFind(s)
    \/ \E s \in Slots : ReviewUpdate(s)

SpecReview == InitEnhanced /\ [][NextReview]_vars

\* Every protected route, with and without a token
NextGuard ==
    \/ \E s \in Slots, e \in {"a@x.com", "b@x.com"} :
          StartSignup(s, SignupBody(e, "secret1", "secret1"))
    \/ \E s \in Slots, c \in Clients : SignupSave(s, c)
    \/ \E s \in Slots, c \in Clients : \E h \in {getAuthHeader(c), NoHeader, <<"Bearer">>} : Me(s, h)
    \/ \E s \in Slots, c \in Clients : \E h \in {getAuthHeader(c), NoHeader, <<"Bearer">>} :
          CreateItem(s, h, ItemBody("bike", 0))
    \/ \E s \in Slots : CreateIncr(s)
    \/ \E s \in Slots, c \in Clients, id \in 1..MaxItems : \E h \in {getAuthHeader(c), NoHeader, <<"Bearer">>} :
          PutItem(s, h, id, ItemBody("drill", 0))
    \/ \E s \in Slots : PutSave(s)
    \/ \E s \in Slots : PutUpdate(s)
    \/ \E s \in Slots, c \in Clients, id \in 1..MaxItems : \E h \in {getAuthHeader(c), NoHeader, <<"Bearer">>} :
          DeleteItem(s, h, id)
    \/ \E s \in Slots : DeleteDo(s)
    \/ \E s \in Slots : DeleteDecr(s)
    \/ \E s \in Slots, c \in Clients, id \in 1..MaxItems : \E h \in {getAuthHeader(c), NoHeader, <<"Bearer">>} :
          Review(s, h, id, ReviewBody(5))
    \/ \E s \in Slots : ReviewSave(s)
    \/ \E s \in Slots : ReviewFind(s)
    \/ \E s \in Slots : ReviewUpdate(s)

SpecGuard == Init /\ [][NextGuard]_vars

\* Start-up with or without JWT_SECRET in the environment: neither server file
\* reads the key before the first request
InitConfig ==
    /\ env \in {[JWT_SECRET |-> "s3cret"], [JWT_SECRET |-> Null]}
    /\ variant \in {"enhanced", "server"}
    /\ now = 0
    /\ users = << >>
    /\ items = << >>
    /\ reviews = EmptyBag
    /\ client = [c \in Clients |-> [token |-> NoToken]]
    /\ slots = [s \in Slots |-> Idle]
    /\ resp = NoResp
    /\ accounts = << >>

SpecConfig == InitConfig /\ [][NextClock]_vars

\* The three server files: part_000, server.js and part_001
InitVariants ==
    /\ env = [JWT_SECRET |-> "s3cret"]
    /\ variant \in {"enhanced", "server", "basic"}
    /\ now = 0
    /\ users = << >>
    /\ items = << >>
    /\ reviews = EmptyBag
    /\ client = [c \in Clients |-> [token |-> NoToken]]
    /\ slots = [s \in Slots |-> Idle]
    /\ resp = NoResp
    /\ accounts = << >>

\* Listings in every server file, with and without a token
NextVariants ==
    \/ /\ variant # "basic"
       /\ \/ \E s \in Slots : StartSignup(s, SignupBody("a@x.com", "secret1", "secret1"))
          \/ \E s \in Slots, c \in Clients : SignupSave(s, c)
          \/ \E s \in Slots, c \in Clients : CreateItem(s, getAuthHeader(c), ItemBody("bike", 0))
          \/ \E s \in Slots : CreateIncr(s)
          \/ \E s \in Slots, c \in Clients, id \in 1..MaxItems :
                \E h \in {getAuthHeader(c), NoHeader} : PutItem(s, h, id, ItemBody("drill", 0))
          \/ \E s \in Slots : PutSave(s)
          \/ \E s \in Slots : PutUpdate(s)
          \/ \E s \in Slots, c \in Clients, id \in 1..MaxItems :
                \E h \in {getAuthHeader(c), NoHeader} : DeleteItem(s, h, id)
          \/ \E s \in Slots : DeleteDo(s)
          \/ \E s \in Slots : DeleteDecr(s)
    \/ \E s \in Slots, n \in {"bike", Null} : CreateItemNoAuth(s, NoHeader, ItemBody(n, 0))
    \/ \E s \in Slots, id \in 1..MaxItems, n \in {"drill", Null} :
          \E h \in {NoHeader, <<"Bearer", Garbage>>} : PutItemNoAuth(s, h, id, ItemBody(n, 0))
    \/ \E s \in Slots, id \in 1..MaxItems :
          \E h \in {NoHeader, <<"Bearer", Garbage>>} : DeleteItemNoAuth(s, h, id)

SpecVariants == InitVariants /\ [][NextVariants]_vars

\* Login, logout and a protected read, with the clock
NextLogout ==
    \/ \E s \in Slots : StartSignup(s, SignupBody("a@x.com", "secret1", "secret1"))
    \/ \E s \in Slots, c \in Clients : SignupSave(s, c)
    \/ \E s \in Slots, c \in Clients : Login(s, c, LoginBody("a@x.com", "secret1"))
    \/ \E s \in Slots, c \in Clients : \E h \in {getAuthHeader(c), NoHeader} : Logout(s, h)
    \/ \E c \in Clients : ClientLogout(c)
    \/ \E s \in Slots, c \in Clients : Me(s, getAuthHeader(c))
    \/ Tick

SpecLogout == Init /\ [][NextLogout]_vars

\* Profile updates next to the writers of the derived fields
NextProfile ==
    \/ \E s \in Slots, e \in {"a@x.com", "b@x.com"} :
          StartSignup(s, SignupBody(e, "secret1", "secret1"))
    \/ \E s \in Slots, c \in Clients : SignupSave(s, c)
    \/ \E s \in Slots, c \in Clients : CreateItem(s, getAuthHeader(c), ItemBody("bike", 0))
    \/ \E s \in Slots : CreateIncr(s)
    \/ \E s \in Slots, c \in Clients, id \in 1..MaxItems : DeleteItem(s, getAuthHeader(c), id)
    \/ \E s \in Slots : DeleteDo(s)
    \/ \E s \in Slots : DeleteDecr(s)
    \/ \E s \in Slots, c \in Clients, id \in 1..MaxItems :
          Review(s, getAuthHeader(c), id, ReviewBody(5))
    \/ \E s \in Slots : ReviewSave(s)
    \/ \E s \in Slots : ReviewFind(s)
    \/ \E s \in Slots : ReviewUpdate(s)
    \/ \E s \in Slots, c \in Clients, n \in {"Bob", Null} :
          PutProfile(s, getAuthHeader(c), ProfileBody(n))
    \/ \E s \in Slots : ProfileSave(s)

SpecProfile == InitEnhanced /\ [][NextProfile]_vars

\* Reviews with storage failures
NextFault ==
    \/ \E s \in Slots, e \in {"a@x.com", "b@x.com"} :
          StartSignup(s, SignupBody(e, "secret1", "secret1"))
    \/ \E s \in Slots, c \in Clients : SignupSave(s, c)
    \/ \E s \in Slots, c \in Clients : CreateItem(s, getAuthHeader(c), ItemBody("bike", 0))
    \/ \E s \in Slots : CreateIncr(s)
    \/ \E s \in Slots, c \in Clients, id \in 1..MaxItems, x \in {5, 6} :
          Review(s, getAuthHeader(c), id, ReviewBody(x))
    \/ \E s \in Slots : ReviewSave(s)
    \/ \E s \in Slots : ReviewFind(s)
    \/ \E s \in Slots : ReviewUpdate(s)
    \/ \E s \in Slots : ReviewCatch(s)

SpecFault == InitEnhanced /\ [][NextFault]_vars

\* Every step of the server: the union of the families above
Next ==
    \/ NextClock
    \/ NextAuth
    \/ NextItems
    \/ NextReview
    \/ NextGuard
    \/ NextLogout
    \/ NextProfile
    \/ NextFault
    \/ NextVariants

Spec == Init /\ [][Next]_vars

\* ====================================================== properties

\* the reviews persisted for seller sid, their number and the sum of their ratings
ReviewsAbout(sid) == {d \in BagToSet(reviews) : d.sellerId = sid}

RECURSIVE CountIn(_)
CountIn(ds) ==
    IF ds = {} THEN 0
    ELSE LET d == CHOOSE x \in ds : TRUE IN reviews[d] + CountIn(ds \ {d})

RECURSIVE SumIn(_)
SumIn(ds) ==
    IF ds = {} THEN 0
    ELSE LET d == CHOOSE x \in ds : TRUE IN d.rating * reviews[d] + SumIn(ds \ {d})

\* avg (in tenths) is sum / n rounded to one decimal: no tenth is nearer
RoundedMean(avg, sum, n) ==
    IF n = 0 THEN avg = 0
    ELSE \A t \in 0..60 :
           (IF 10 * sum >= avg * n THEN 10 * sum - avg * n ELSE avg * n - 10 * sum)
             <= (IF 10 * sum >= t * n THEN 10 * sum - t * n ELSE t * n - 10 * sum)

AggregateMatches(sid) ==
    /\ users[sid].totalReviews = CountIn(ReviewsAbout(sid))
    /\ RoundedMean(users[sid].averageRating, SumIn(ReviewsAbout(sid)),
                   CountIn(ReviewsAbout(sid)))

NoReviewInFlight == \A s \in Slots : slots[s].route # "review"

\* C1: once every concurrent review submission has completed, the stored
\* aggregate of each seller reflects all of the seller's reviews (ratings 4 and
\* 5 end with averageRating 4.5 and totalReviews 2, whatever the interleaving).
C1_AggregateAfterConcurrent ==
    NoReviewInFlight => \A sid \in UserIds : AggregateMatches(sid)

\* C2: the aggregate is updated atomically with the review write: in every
\* state, also between the steps of a submission, totalReviews and
\* averageRating of every seller equal the count and the rounded mean of the
\* persisted reviews.
C2_AggregateAlwaysMatches ==
    \A sid \in UserIds : AggregateMatches(sid)

\* C3: a review submission that no other submission for the same seller
\* overlaps and that completes with 201 leaves the stored aggregate equal to a
\* from-scratch recompute over the seller's persisted reviews.
C3_SequentialRecompute ==
    ( /\ resp.req.route = "review"
      /\ resp.status = 201
      /\ ~resp.req.overlap
      /\ InFlightFor(resp.req.owner) = {} )
    => AggregateMatches(resp.req.owner)

C3_Witness ==
    /\ resp.req.route = "review"
    /\ resp.status = 201
    /\ ~resp.req.overlap
    /\ InFlightFor(resp.req.owner) = {}
    /\ users[resp.req.owner].totalReviews = 3
    /\ users[resp.req.owner].averageRating = 47

\* a review submission by the owner of the listing it reviews
IsSelfReview(r) == r.route = "review" /\ r.ran /\ r.owner # 0 /\ r.user = r.owner

\* C5: a review submission by the owner of the listing is answered 400, creates
\* no review and leaves the seller aggregate alone; no submission of an owner
\* gets past the guard and no persisted review has buyerId = sellerId.
C5_SelfReviewForbidden ==
    [][ /\ (resp' # resp /\ IsSelfReview(resp'.req))
            => (resp'.status = 400 /\ reviews' = reviews /\ users' = users)
        /\ \A s \in Slots : ~IsSelfReview(slots'[s])
        /\ \A d \in BagToSet(reviews') : d.buyerId # d.sellerId ]_vars

C5_Witness ==
    /\ IsSelfReview(resp.req)
    /\ resp.status = 400
    /\ resp.req.body.rating = 5

\* C6: a review submission by a non-owner on an existing listing with a rating
\* outside 1..5 is answered 400.
C6_InvalidRating400 ==
    ( /\ resp.req.route = "review"
      /\ resp.req.ran
      /\ resp.req.owner # 0
      /\ resp.req.user # resp.req.owner
      /\ (resp.req.body.rating < 1 \/ resp.req.body.rating > 5) )
    => resp.status = 400

IsMutation(r) == r.route \in {"putItem", "deleteItem"}

\* C4: on PUT and DELETE /api/items/:id of a listing that the handler found,
\* owned by A: a requester B # A is answered 403 and nothing is written; the
\* requester A is not refused, and while the listing still exists A's update
\* is applied with 200 and A's delete removes the listing and ends with 200.
C4_OwnershipGuard ==
    [][ /\ (resp' # resp /\ IsMutation(resp'.req) /\ resp'.req.owner # 0)
            => /\ (resp'.req.user # resp'.req.owner)
                     => (resp'.status = 403 /\ items' = items /\ users' = users)
               /\ (resp'.req.user = resp'.req.owner) => resp'.status # 403
        /\ \A s \in Slots :
              (IsMutation(slots'[s]) /\ slots'[s].pc # "idle")
                 => slots'[s].user = slots'[s].owner
        /\ \A s \in Slots, i \in 1..MaxItems :
              (slots[s].id = i /\ i \in 1..Len(items) /\ items[i].live)
                 => /\ (slots[s].pc \in {"itemSave", "itemUpdate"} /\ slots'[s].pc = "idle")
                          => /\ resp'.status = 200
                             /\ slots[s].body.name # Null
                                   => items'[i].name = slots[s].body.name
                    /\ (slots[s].pc = "itemDelete" /\ slots'[s].pc # "itemDelete")
                          => ~items'[i].live
        /\ \A s \in Slots :
              (slots[s].route = "deleteItem" /\ slots[s].pc # "idle" /\ slots'[s].pc = "idle")
                 => resp'.status = 200 ]_vars

C4_Witness ==
    /\ resp.req.route = "putItem"
    /\ resp.status = 403
    /\ resp.req.owner # 0
    /\ resp.req.user # resp.req.owner
    /\ items[resp.req.id].live
    /\ items[resp.req.id].name = "drill"

Protected(r) ==
    r.route \in {"me", "putProfile", "createItem", "putItem", "deleteItem", "review"}

\* the Authorization header is absent or has no second word
CarriesNoToken(h) == Len(h) < 2

\* C7: a request to a protected route that carries no token is answered 401
\* before the handler runs: the handler is never entered, no such request is
\* ever in flight, and no stored user, item or review changes.
C7_NoToken401 ==
    [][ /\ (resp' # resp /\ Protected(resp'.req) /\ CarriesNoToken(resp'.req.hdr))
            => /\ resp'.status = 401
               /\ ~resp'.req.ran
               /\ users' = users /\ items' = items /\ reviews' = reviews
        /\ \A s \in Slots :
              (Protected(slots'[s]) /\ slots'[s].pc # "idle")
                 => ~CarriesNoToken(slots'[s].hdr) ]_vars

C7_Witness ==
    /\ resp.req.route = "review"
    /\ resp.req.hdr = <<"Bearer">>
    /\ resp.status = 401
    /\ ~resp.req.ran
    /\ Len(users) = 2
    /\ ItemFound(resp.req.id)

\* C8: a request to a protected route that carries a token which fails
\* verification (malformed, bad signature, expired) is answered 401 and the
\* handler is not run.
C8_InvalidToken401 ==
    ( /\ Protected(resp.req)
      /\ ~CarriesNoToken(resp.req.hdr)
      /\ \/ resp.req.hdr[2].kind # "jwt"
         \/ resp.req.hdr[2].sig # SecretOrKey
         \/ ~resp.req.unexpired )
    => (resp.status = 401 /\ ~resp.req.ran)

HeldTokens == {client[c].token : c \in Clients} \ {NoToken}

\* C9: a token issued at sign-up or login is accepted by the middleware at
\* every time before its expiry and rejected at every time after it, by the
\* middleware itself and in the requests answered; once rejected it is never
\* accepted again.
C9_MonotonicExpiry ==
    [][ \A tok \in HeldTokens :
          /\ (now < tok.exp) => (Middleware(<<"Bearer", tok>>, now).next
                                 /\ Middleware(<<"Bearer", tok>>, now).userId = tok.sub)
          /\ (now' > tok.exp) => ~Middleware(<<"Bearer", tok>>, now').next
          /\ ~Middleware(<<"Bearer", tok>>, now).next
                => ~Middleware(<<"Bearer", tok>>, now').next
          /\ (resp' # resp /\ Protected(resp'.req) /\ resp'.req.hdr = <<"Bearer", tok>>)
                => /\ (now' < tok.exp) => resp'.req.ran
                   /\ (now' > tok.exp) => (~resp'.req.ran /\ resp'.status \in {401, 403}) ]_vars

C9_Witness ==
    \E tok \in HeldTokens :
        /\ now > tok.exp
        /\ resp.req.route = "me"
        /\ resp.req.hdr = <<"Bearer", tok>>
        /\ ~resp.req.ran
        /\ resp.status \in {401, 403}

\* the email is registered: it equals a stored email up to case and blanks
Registered(e) == \E i \in UserIds : Normalize(users[i].email) = Normalize(e)

\* the sign-up body has every field the running server asks for
ValidSignup(b) ==
    /\ b.name # Null /\ b.email # Null /\ b.password # Null
    /\ variant = "server" => (b.confirmPassword = b.password /\ Len(b.password) >= 6)

\* C10: a valid sign-up whose email is not registered is answered 201 with a
\* token that the middleware resolves to the identity just created; a later
\* login with the email and password of a sign-up answered 201 is answered 200
\* with a token that the middleware resolves to that identity.
C10_SignupLoginRoundTrip ==
    [][ /\ ( /\ resp' # resp
             /\ resp'.req.route = "signup"
             /\ ValidSignup(resp'.req.body)
             /\ ~Registered(resp'.req.body.email) )
            => /\ resp'.status = 201
               /\ Len(users') = Len(users) + 1
               /\ Middleware(<<"Bearer", resp'.token>>, now').next
               /\ Middleware(<<"Bearer", resp'.token>>, now').userId = Len(users')
        /\ \A i \in 1..Len(accounts) :
              ( /\ resp' # resp
                /\ resp'.req.route = "login"
                /\ resp'.req.body.email = accounts[i].email
                /\ resp'.req.body.password = accounts[i].password )
              => /\ resp'.status = 200
                 /\ Middleware(<<"Bearer", resp'.token>>, now').next
                 /\ Middleware(<<"Bearer", resp'.token>>, now').userId = i ]_vars

C10_Witness ==
    /\ resp.req.route = "login"
    /\ resp.status = 200
    /\ resp.req.body.email = "A@x.com"
    /\ resp.token.sub = 2
    /\ accounts[2] = [email |-> "A@x.com", password |-> "wrong"]
    /\ Middleware(<<"Bearer", resp.token>>, now).userId = 2

\* the credentials of a login match no stored identity: the email is unknown
\* or the password does not match the stored digest
BadCredentials(b) ==
    LET u == FindOneByEmail(b.email) IN
    u = 0 \/ ~Compare(b.password, users[u].password)

\* C11: a login whose email is unknown or whose password does not match the
\* stored digest is answered 400 and issues no token.
C11_BadLogin400 ==
    (resp.req.route = "login" /\ BadCredentials(resp.req.body))
    => (resp.status = 400 /\ resp.token = NoToken)

\* C12: no two stored identities have emails that are equal after trimming and
\* lower-casing, whatever the sequence or interleaving of sign-ups.
C12_EmailUniqueNormalized ==
    \A i, j \in UserIds :
        i # j => Normalize(users[i].email) # Normalize(users[j].email)

\* C13: a sign-up whose email is already stored when it is answered gets 400 and
\* creates no identity, also when it passed the existence check before the
\* other sign-up saved.
C13_DuplicateSignup400 ==
    [][ ( /\ resp' # resp
          /\ resp'.req.route = "signup"
          /\ FindOneByEmail(resp'.req.body.email) # 0 )
        => (resp'.status = 400 /\ users' = users) ]_vars

\* what the client can observe of a response: the status and the body
Outcome(rs) == [status |-> rs.status, json |-> rs.json]

\* a review submission that failed while the review was not persisted, and one
\* that failed after its review was persisted
FailedBeforePersist(rs) ==
    rs.req.route = "review" /\ rs.req.pc = "reviewSave" /\ rs.status >= 500

FailedAfterPersist(rs) ==
    rs.req.route = "review" /\ rs.req.pc \in {"reviewFind", "aggUpdate"} /\ rs.status >= 500

\* C14: a submission that fails after its review was persisted (in the read of
\* the seller's reviews or in the write of the aggregate) ends in an outcome
\* that differs from the outcome of a submission that failed before the persist.
C14_DistinctAggregateFailure ==
    [][ (FailedBeforePersist(resp) /\ FailedAfterPersist(resp'))
        => Outcome(resp) # Outcome(resp') ]_vars

\* the review document that submission r inserts
ReviewOf(r) ==
    [itemId |-> r.id, sellerId |-> r.owner, buyerId |-> r.user, rating |-> r.body.rating]

\* C20: the review is persisted before the aggregate is recomputed: a
\* submission whose save fails (validation or storage) ends there with 500 and
\* leaves users and reviews as they were, and every submission that is at the
\* read of the seller's reviews or at the write of the aggregate has its
\* review persisted.
C20_PersistBeforeRecompute ==
    [][ /\ \A s \in Slots :
              (slots[s].pc = "reviewSave" /\ slots'[s].pc # "reviewSave" /\ reviews' = reviews)
                 => /\ slots'[s].pc = "idle"
                    /\ resp'.req = slots[s]
                    /\ resp'.status = 500
                    /\ users' = users
        /\ \A s \in Slots :
              slots'[s].pc \in {"reviewFind", "aggUpdate"}
                 => ReviewOf(slots'[s]) \in BagToSet(reviews') ]_vars

C20_Witness ==
    /\ resp.req.route = "review"
    /\ resp.req.pc = "reviewSave"
    /\ resp.status = 500
    /\ RatingValid(resp.req.body.rating)
    /\ BagCardinality(reviews) = 1
    /\ users[resp.req.owner].totalReviews = 1
    /\ users[resp.req.owner].averageRating = 50

\* the tokens that the server has signed and a request or a browser carries
KnownTokens ==
    {t \in HeldTokens \cup {ExtractToken(slots[s].hdr) : s \in Slots}
                      \cup {ExtractToken(resp.req.hdr)} :
        t.kind = "jwt" /\ t.sig = SecretOrKey}

\* C15: a logout answered by the server changes no stored user, item or
\* review; a token that the middleware accepts is still accepted after a
\* logout (the request to the server, or the browser discarding its token) at
\* every time before its expiry, and a request that carries it after the
\* logout is served.
C15_LogoutNoServerEffect ==
    [][ /\ (resp' # resp /\ resp'.req.route = "logout")
            => (users' = users /\ items' = items /\ reviews' = reviews)
        /\ ((resp' # resp /\ resp'.req.route = "logout") \/ client' # client)
            => \A tok \in KnownTokens, t \in 0..(MaxTime + TokenTTL) :
                  (Middleware(<<"Bearer", tok>>, now).next /\ now' <= t /\ t < tok.exp)
                     => Middleware(<<"Bearer", tok>>, t)'.next
        /\ (resp' # resp /\ resp'.req.route = "me" /\ resp'.req.unexpired
              /\ ExtractToken(resp'.req.hdr) \in KnownTokens)
            => resp'.req.ran ]_vars

C15_Witness ==
    /\ resp.req.route = "logout"
    /\ resp.status = 200
    /\ ExtractToken(resp.req.hdr) \in KnownTokens
    /\ now > 0
    /\ Middleware(resp.req.hdr, now).next
    /\ \E c \in Clients : client[c].token = NoToken
    /\ Len(users) = 1

\* C16: without JWT_SECRET in the configuration the server never serves a
\* request: no request is in flight, no response was sent and no token was
\* issued.
C16_NoSecretNoService ==
    env.JWT_SECRET = Null
    => /\ resp.status = 0
       /\ resp.token = NoToken
       /\ \A s \in Slots : slots[s].pc = "idle"

\* C17: every response sent, by a route or by the authentication middleware,
\* carries a success flag and a message field.
C17_SuccessAndMessage ==
    resp.status # 0
    => (resp.json.success \in BOOLEAN /\ resp.json.message # Null)

\* the request carries a token that the server signed and that had not expired
\* when the request arrived
ValidToken(r) ==
    /\ Len(r.hdr) >= 2
    /\ r.hdr[2].kind = "jwt"
    /\ r.hdr[2].sig = SecretOrKey
    /\ r.unexpired

\* C18: in every server file that has PUT and DELETE /api/items/:id, a step
\* of such a request that updates or deletes a listing belongs to a request
\* that carries a valid token.
C18_MutationRequiresAuth ==
    [][ items' # items
        => /\ (resp' # resp /\ IsMutation(resp'.req)) => ValidToken(resp'.req)
           /\ \A s \in Slots :
                 (slots'[s] # slots[s] /\ IsMutation(slots'[s])) => ValidToken(slots'[s]) ]_vars

\* the stages of a PUT or DELETE at which it writes
AtWrite(r) == r.pc \in {"itemSave", "itemUpdate", "itemDelete", "decr"}

\* C19: a PUT or DELETE that ends with 403 is answered in the step in which it
\* reads the listing: it never waits at a write, and that step leaves every
\* listing and every user (totalItemsListed included) as they were; a request
\* that is at a write has passed the ownership check and never ends with 403.
C19_DenyBeforeMutation ==
    [][ /\ (resp' # resp /\ IsMutation(resp'.req) /\ resp'.status = 403)
            => /\ slots' = slots
               /\ ~AtWrite(resp'.req)
               /\ items' = items
               /\ users' = users
        /\ \A s \in Slots :
              (slots[s].pc = "idle" /\ IsMutation(slots'[s]) /\ AtWrite(slots'[s]))
                 => (ItemFound(slots'[s].id) /\ ~NotOwner(slots'[s].id, slots'[s].user))
        /\ \A s \in Slots :
              (IsMutation(slots[s]) /\ AtWrite(slots[s]) /\ slots'[s].pc = "idle")
                 => resp'.status # 403 ]_vars

C19_Witness ==
    /\ resp.req.route = "deleteItem"
    /\ resp.status = 403
    /\ resp.req.owner # 0
    /\ resp.req.user # resp.req.owner
    /\ ItemFound(resp.req.id)
    /\ resp.req.owner \in UserIds
    /\ users[resp.req.owner].totalItemsListed = 1

\* the rating of a request body is a number from 1 to 5
InRange(x) == x # NoRating /\ 1 <= x /\ x <= 5

\* C21: every persisted review has a rating from 1 to 5; a submission whose
\* rating is missing or out of range is never answered 201, never gets to the
\* read or the write of the aggregate, and the step that answers it leaves
\* reviews and users as they were.
C21_PersistedRatingsInRange ==
    [][ /\ \A d \in BagToSet(reviews') : 1 <= d.rating /\ d.rating <= 5
        /\ ( /\ resp' # resp
             /\ resp'.req.route = "review"
             /\ resp'.req.ran
             /\ ~InRange(resp'.req.body.rating) )
            => (resp'.status # 201 /\ reviews' = reviews /\ users' = users)
        /\ \A s \in Slots :
              slots'[s].pc \in {"reviewFind", "aggUpdate"}
                 => InRange(slots'[s].body.rating) ]_vars

C21_Witness ==
    /\ resp.req.route = "review"
    /\ resp.req.pc = "reviewSave"
    /\ resp.req.body.rating = 0
    /\ resp.status = 500
    /\ BagCardinality(reviews) = 2
    /\ users[resp.req.owner].totalReviews = 2
    /\ users[resp.req.owner].averageRating = 45

\* C22: a request to a protected route whose Authorization header does not
\* start with the scheme word 'Bearer' is refused by the middleware as
\* unauthenticated, whatever token follows the scheme word.
C22_BearerSchemeOnly ==
    ( /\ Protected(resp.req)
      /\ Len(resp.req.hdr) >= 1
      /\ resp.req.hdr[1] # "Bearer" )
    => (~resp.req.ran /\ resp.status = 401)

\* C23: no step of any execution lowers the stored totalReviews of a seller.
C23_TotalReviewsMonotonic ==
    [][ \A sid \in UserIds :
          users'[sid].totalReviews >= users[sid].totalReviews ]_vars

\* the listings stored for user u
ItemsOf(u) == {i \in ItemIds : items[i].live /\ items[i].userId = u}

NoItemWriteInFlight ==
    \A s \in Slots : slots[s].route \notin {"createItem", "deleteItem"}

\* C24: in part_000, once every creation and deletion has completed,
\* totalItemsListed of every user is the number of stored listings of that
\* user and is not negative.
C24_ListingCountMatches ==
    (variant = "enhanced" /\ NoItemWriteInFlight)
    => \A u \in UserIds :
          /\ users[u].totalItemsListed >= 0
          /\ users[u].totalItemsListed = Cardinality(ItemsOf(u))

\* C25: a listing's userId is the identity of the authenticated creator and
\* no step changes the userId of a stored listing.
C25_OwnerNeverChanges ==
    [][ /\ \A i \in ItemIds :
              (items[i].live /\ items'[i].live) => items'[i].userId = items[i].userId
        /\ Len(items') > Len(items)
              => \E s \in Slots :
                    /\ slots[s].pc = "idle"
                    /\ \/ slots'[s].route = "createItem"
                          /\ slots'[s].user = items'[Len(items')].userId
                       \/ resp'.req.route = "createItem"
                          /\ resp' # resp
                          /\ resp'.req.user = items'[Len(items')].userId ]_vars

\* slot s takes a step of PUT /api/profile: the arrival up to the save, an
\* arrival that is answered at once, or the save
ProfileStep(s) ==
    \/ slots[s].pc = "idle" /\ slots'[s].route = "putProfile"
    \/ /\ slots[s].pc = "idle" /\ resp' # resp
       /\ resp'.req.route = "putProfile" /\ resp'.req.pc # "profileSave"
    \/ slots[s].pc = "profileSave" /\ slots'[s].pc = "idle"

\* C26: a step of PUT /api/profile stores no new user and changes no user's
\* averageRating, totalReviews, totalItemsListed, email or password, whatever
\* the body carries and whatever other request wrote since the handler read
\* the document; the only change is the name of the authenticated user, to
\* the name of the body.
C26_ProfileUpdateFrame ==
    [][ \A s \in Slots : ProfileStep(s) =>
          /\ Len(users') = Len(users)
          /\ \A u \in UserIds :
                /\ users'[u].averageRating = users[u].averageRating
                /\ users'[u].totalReviews = users[u].totalReviews
                /\ users'[u].totalItemsListed = users[u].totalItemsListed
                /\ users'[u].email = users[u].email
                /\ users'[u].password = users[u].password
                /\ users'[u].name # users[u].name
                      => /\ slots[s].pc = "profileSave"
                         /\ u = slots[s].user
                         /\ users'[u].name = slots[s].body.name ]_vars

\* a profile update was saved after a review and an item creation wrote the
\* derived fields of the document it had read
C26_Witness ==
    /\ resp.req.route = "putProfile"
    /\ resp.req.pc = "profileSave"
    /\ resp.status = 200
    /\ users[resp.req.user].name = "Bob"
    /\ resp.req.doc.totalReviews = 0
    /\ resp.req.doc.totalItemsListed = 0
    /\ users[resp.req.user].totalReviews = 1
    /\ users[resp.req.user].averageRating = 50
    /\ users[resp.req.user].totalItemsListed = 1

====
